---------------------------- MODULE Spec2Model ----------------------------
(***************************************************************************)
(* A model of the utility helpers of the AI-Engineer course repository:    *)
(*   - utils/api_helpers.py: RateLimiter / AsyncRateLimiter (sliding       *)
(*     window), retry_with_backoff / async_retry_with_backoff.             *)
(*   - utils/cost_tracker.py: calculate_cost, CostTracker.                 *)
(*   - 03-ai-fundamentals-openai/solutions/09-cost-tracker-solution.py:    *)
(*     the CostTracker of the module-03 solution.                          *)
(*                                                                         *)
(* Time (time.time()) is a discrete clock.  Floats (delays) are exact      *)
(* rationals <<numerator, denominator>>; rounding is not modelled.         *)
(* A model name is a sequence of text blocks ("gpt-4", "-turbo", ...), so  *)
(* that equality and substring tests are computed, not assumed.            *)
(* Each component has its own specification; the variables of the other    *)
(* components keep their initial values in it.                             *)
(***************************************************************************)
EXTENDS Integers, Sequences, FiniteSets, TLC

VARIABLES
    \* ---- RateLimiter / AsyncRateLimiter (api_helpers.py 169-294)
    clock,          \* the value time.time() returns
    variant,        \* "sync" = RateLimiter, "async" = AsyncRateLimiter
    max_requests,   \* self.max_requests
    time_window,    \* self.time_window
    requests,       \* self.requests, the deque of recorded timestamps
    locked,         \* self.lock (asyncio.Lock) is held; unused by RateLimiter
    pc,             \* per caller: the statement of acquire() it is at
    now,            \* per caller: the local `now`
    wait_time,      \* per caller: the local `wait_time` last computed
    wake,           \* per caller: the clock value at which its sleep ends
    depth,          \* per caller: number of suspended outer acquire() frames
    result,         \* per caller: how its last acquire() ended
    waits,          \* per caller: sleeps done by the call in progress
    recorded,       \* per caller: timestamps appended by the call in progress
    calls,          \* number of acquire() calls started so far
    \* ---- retry_with_backoff / async_retry_with_backoff (api_helpers.py 56-166)
    wrapper,        \* "sync" = retry_with_backoff, "async" = async_retry_with_backoff
    max_retries,    \* decorator argument
    initial_delay,  \* decorator argument
    max_delay,      \* decorator argument
    exponential_base,       \* decorator argument
    jitter,                 \* decorator argument
    retryable_exceptions,   \* decorator argument: a set of exception classes
    rpc,            \* where the wrapper is: "invoke", "sleep" or "done"
    attempt,        \* the loop variable `attempt`
    delay,          \* the local `delay`
    actual_delay,   \* the local `actual_delay`
    outcome,        \* how the wrapper ended: <<"returned", v>> or <<"raised", class, k>>
    log,            \* what happened so far: <<"invoke", result>>, <<"sleep", delay, actual_delay>>
    \* ---- calculate_cost (cost_tracker.py 114-144)
    cc_prompt,      \* argument prompt_tokens
    cc_completion,  \* argument completion_tokens
    cc_model,       \* argument model
    cc_result,      \* <<"none">> before the call, then <<"ok", cost>> or <<"ValueError">>
    \* ---- CostTracker (cost_tracker.py 167-365; solution 09-cost-tracker 6-35)
    tracker,        \* "utils" = utils.cost_tracker.CostTracker, "solution" = the solution's
    tracker_calls,  \* self.calls
    total_cost,     \* self.total_cost (solution only)
    warning_threshold,  \* float(os.getenv("COST_WARNING_THRESHOLD", "10.0"))
    max_threshold,      \* float(os.getenv("COST_MAX_THRESHOLD", "50.0"))
    track_args,     \* the arguments <<prompt, completion, model>> of the last track call
    track_result,   \* how the last track call ended
    warned,         \* the last track call printed the threshold warning
    tracked,        \* per call that computed a cost: <<prompt, completion, model, cost>>
    report,         \* the session report returned since the last track call
    \* ---- ConversationManager (solutions/04-conversation-manager-solution.py 17-134)
    messages,    \* self.messages: records [role, id, tokens]; id = position in the order of creation
    max_context_tokens,    \* self.max_context_tokens
    total_tokens_used,    \* self.total_tokens_used
    added,    \* number of messages created so far (the system prompt is message 0)
    conv_op,    \* the last operation: "init", "add", "trim", "sent", "failed", "clear"
    conv_before,    \* self.messages before the last operation
    conv_before_total,   \* self.total_tokens_used before the last operation
    \* ---- retry_with_backoff and async_retry_with_backoff side by side (api_helpers.py 56-166)
    pair_config,    \* the decorator arguments both wrappers are given
    pair_rpc,    \* per wrapper: "invoke" while it runs, "done" when it has ended
    pair_attempt,    \* per wrapper: the loop variable `attempt`
    pair_delay,    \* per wrapper: the local `delay`
    pair_outcome,    \* per wrapper: <<"none">>, <<"returned", v>> or <<"raised", class>>
    pair_log,   \* per wrapper: its invocations and the delays it slept
    \* ---- consumers of a streamed response (litellm_helpers.py 203-213, 337-343; ai-writing-assistant/assistant.py 36-55)
    stream_consumer,    \* "_stream_chunks", "_stream_response" or "stream_response" (WritingAssistant)
    stream_chunks,    \* the chunks of the stream: <<choices, content kind, text>>
    stream_pos,    \* number of chunks consumed so far
    stream_out,   \* the fragments yielded (or added to full_response) so far, in order
    \* ---- track_cost, the global tracker, print_summary (cost_tracker.py 340-426)
    global_tracker,    \* _global_tracker: "None" or "set"
    deco_func,    \* what the decorated function did: <<"returns", response>> or <<"raises", class>>
    deco_result,    \* how the decorated call ended: <<"returned", response>> or <<"raised", class>>
    summary_result    \* how the last print_summary ended: "printed" or "KeyError"

limiterVars == <<clock, variant, max_requests, time_window, requests, locked,
                 pc, now, wait_time, wake, depth, result, waits, recorded, calls>>

retryVars == <<wrapper, max_retries, initial_delay, max_delay, exponential_base,
               jitter, retryable_exceptions, rpc, attempt, delay, actual_delay,
               outcome, log>>

costVars == <<cc_prompt, cc_completion, cc_model, cc_result>>

trackerVars == <<tracker, tracker_calls, total_cost, warning_threshold, max_threshold,
                 track_args, track_result, warned, tracked, report>>

convVars == <<messages, max_context_tokens, total_tokens_used, added, conv_op, conv_before, conv_before_total>>

pairVars == <<pair_config, pair_rpc, pair_attempt, pair_delay, pair_outcome, pair_log>>

streamVars == <<stream_consumer, stream_chunks, stream_pos, stream_out>>

globalVars == <<global_tracker, deco_func, deco_result, summary_result>>

vars == <<limiterVars, retryVars, costVars, trackerVars, convVars, pairVars, streamVars, globalVars>>

\* What the actions of one component leave alone.
outsideLimiter == <<retryVars, costVars, trackerVars, convVars, pairVars, streamVars, globalVars>>
outsideRetry == <<limiterVars, costVars, trackerVars, convVars, pairVars, streamVars, globalVars>>
outsideCost == <<limiterVars, retryVars, trackerVars, convVars, pairVars, streamVars, globalVars>>
outsideTracker == <<limiterVars, retryVars, costVars, convVars, pairVars, streamVars, globalVars>>
outsideConv == <<limiterVars, retryVars, costVars, trackerVars, pairVars, streamVars, globalVars>>
outsidePair == <<limiterVars, retryVars, costVars, trackerVars, convVars, streamVars, globalVars>>
outsideStream == <<limiterVars, retryVars, costVars, trackerVars, convVars, pairVars, globalVars>>
\* (The decorator and print_summary act on the tracker.)
outsideGlobal == <<limiterVars, retryVars, costVars, convVars, pairVars, streamVars>>

----------------------------------------------------------------------------
\* Bounds of the model.
NumCallers == 2
MaxTime == 3
MaxPermits == 2
MaxWindow == 2
MaxCalls == 3

MaxRetries == 3
MaxNameLen == 3
MaxTracked == 3
MaxAdded == 4
MaxChunks == 3

Callers == 1..NumCallers

\* No ConversationManager is in use.
ConvIdle ==
    /\ messages = <<>>
    /\ max_context_tokens = 0
    /\ total_tokens_used = 0
    /\ added = 0
    /\ conv_op = "init"
    /\ conv_before = <<>>
    /\ conv_before_total = 0

\* The two retry wrappers are not run side by side.
PairIdle ==
    /\ pair_config = [max_retries |-> 0]
    /\ pair_rpc = [w \in {"sync", "async"} |-> "done"]
    /\ pair_attempt = [w \in {"sync", "async"} |-> 0]
    /\ pair_delay = [w \in {"sync", "async"} |-> <<0, 1>>]
    /\ pair_outcome = [w \in {"sync", "async"} |-> <<"none">>]
    /\ pair_log = [w \in {"sync", "async"} |-> <<>>]

\* No stream is being consumed.
StreamIdle ==
    /\ stream_consumer = "_stream_chunks"
    /\ stream_chunks = <<>>
    /\ stream_pos = 0
    /\ stream_out = <<>>

\* The global tracker and the decorator are not in use.
GlobalIdle ==
    /\ global_tracker = "None"
    /\ deco_func = <<"none">>
    /\ deco_result = <<"none">>
    /\ summary_result = "none"

\* The retry wrapper is not in use.
RetryIdle ==
    /\ wrapper = "sync"
    /\ max_retries = 0
    /\ initial_delay = <<0, 1>>
    /\ max_delay = <<0, 1>>
    /\ exponential_base = <<1, 1>>
    /\ jitter = FALSE
    /\ retryable_exceptions = {}
    /\ rpc = "done"
    /\ attempt = 0
    /\ delay = <<0, 1>>
    /\ actual_delay = <<0, 1>>
    /\ outcome = <<"none">>
    /\ log = <<>>

\* calculate_cost is not being called.
CostIdle ==
    /\ cc_prompt = 0
    /\ cc_completion = 0
    /\ cc_model = <<>>
    /\ cc_result = <<"none">>

\* No cost tracker is in use.
TrackerIdle ==
    /\ tracker = "utils"
    /\ tracker_calls = <<>>
    /\ total_cost = <<0, 1>>
    /\ warning_threshold = <<10, 1>>
    /\ max_threshold = <<50, 1>>
    /\ track_args = <<>>
    /\ track_result = <<"none">>
    /\ warned = FALSE
    /\ tracked = <<>>
    /\ report = [kind |-> "none"]

----------------------------------------------------------------------------
\* RateLimiter.acquire / AsyncRateLimiter.acquire

\* self.requests[0] < now - self.time_window
IsExpired(oldest, n, w) == oldest < n - w

\* Mutant: the age of the oldest request is added, not subtracted.
WaitTimeAgeAdded(w, n, oldest) == w + (n - oldest)

\* wait_time = self.time_window - (now - oldest_request)
WaitTime(w, n, oldest) == w - (n - oldest)

\* len(self.requests) >= self.max_requests
WindowFull(reqs, n) == Len(reqs) >= n

\* `return self.acquire()` / `await self.acquire(); return`: once the inner
\* call has returned, each of the d suspended outer frames returns without
\* appending a timestamp of its own.
AfterInnerReturn(reqs, d, t) == reqs

\* An exception leaves acquire(); `async with` releases the lock on the way.
Raised(c, e) ==
    /\ pc' = [pc EXCEPT ![c] = "idle"]
    /\ result' = [result EXCEPT ![c] = e]
    /\ locked' = IF variant = "async" THEN FALSE ELSE locked
    /\ now' = [now EXCEPT ![c] = 0]
    /\ wait_time' = [wait_time EXCEPT ![c] = 0]
    /\ wake' = [wake EXCEPT ![c] = 0]
    /\ depth' = [depth EXCEPT ![c] = 0]

\* RateLimiter.__init__ / AsyncRateLimiter.__init__
LimiterInit(v, n, w) ==
    /\ clock = 0
    /\ variant = v
    /\ max_requests = n
    /\ time_window = w
    /\ requests = <<>>
    /\ locked = FALSE
    /\ pc = [c \in Callers |-> "idle"]
    /\ now = [c \in Callers |-> 0]
    /\ wait_time = [c \in Callers |-> 0]
    /\ wake = [c \in Callers |-> 0]
    /\ depth = [c \in Callers |-> 0]
    /\ result = [c \in Callers |-> "none"]
    /\ waits = [c \in Callers |-> 0]
    /\ recorded = [c \in Callers |-> 0]
    /\ calls = 0

\* No limiter is in use.
LimiterIdle == LimiterInit("sync", 1, 1)

InitLimiter ==
    /\ \E v \in {"sync", "async"}, n \in 1..MaxPermits, w \in 1..MaxWindow :
            LimiterInit(v, n, w)
    /\ ConvIdle
    /\ PairIdle
    /\ StreamIdle
    /\ GlobalIdle
    /\ RetryIdle
    /\ CostIdle
    /\ TrackerIdle

\* Time passes.  Beyond MaxTime it passes only while a sleeper still needs it.
Tick ==
    /\ \/ clock < MaxTime
       \/ \E c \in Callers : pc[c] = "sleep" /\ clock < wake[c]
    /\ UNCHANGED outsideLimiter
    /\ clock' = clock + 1
    /\ UNCHANGED <<variant, max_requests, time_window, requests, locked, pc, now,
                   wait_time, wake, depth, result, waits, recorded, calls>>

\* A caller enters acquire().
AcquireCall(c) ==
    /\ pc[c] = "idle"
    /\ UNCHANGED outsideLimiter
    /\ calls < MaxCalls
    /\ calls' = calls + 1
    /\ pc' = [pc EXCEPT ![c] = IF variant = "async" THEN "lock" ELSE "now"]
    /\ result' = [result EXCEPT ![c] = "none"]
    /\ waits' = [waits EXCEPT ![c] = 0]
    /\ recorded' = [recorded EXCEPT ![c] = 0]
    /\ UNCHANGED <<clock, variant, max_requests, time_window, requests, locked,
                   now, wait_time, wake, depth>>

\* async with self.lock:  (asyncio.Lock is not reentrant)
Lock(c) ==
    /\ pc[c] = "lock"
    /\ UNCHANGED outsideLimiter
    /\ ~locked
    /\ locked' = TRUE
    /\ pc' = [pc EXCEPT ![c] = "now"]
    /\ UNCHANGED <<clock, variant, max_requests, time_window, requests, now,
                   wait_time, wake, depth, result, waits, recorded, calls>>

\* now = time.time()
ReadNow(c) ==
    /\ pc[c] = "now"
    /\ UNCHANGED outsideLimiter
    /\ now' = [now EXCEPT ![c] = clock]
    /\ pc' = [pc EXCEPT ![c] = "prune_test"]
    /\ UNCHANGED <<clock, variant, max_requests, time_window, requests, locked,
                   wait_time, wake, depth, result, waits, recorded, calls>>

\* while self.requests and self.requests[0] < now - self.time_window:
PruneTest(c) ==
    /\ pc[c] = "prune_test"
    /\ UNCHANGED outsideLimiter
    /\ pc' = [pc EXCEPT ![c] =
                IF requests # <<>> /\ IsExpired(Head(requests), now[c], time_window)
                THEN "prune_pop" ELSE "check"]
    /\ UNCHANGED <<clock, variant, max_requests, time_window, requests, locked,
                   now, wait_time, wake, depth, result, waits, recorded, calls>>

\*     self.requests.popleft()
PrunePop(c) ==
    /\ pc[c] = "prune_pop"
    /\ UNCHANGED outsideLimiter
    /\ IF requests = <<>>
       THEN /\ Raised(c, "IndexError")
            /\ UNCHANGED requests
       ELSE /\ requests' = Tail(requests)
            /\ pc' = [pc EXCEPT ![c] = "prune_test"]
            /\ UNCHANGED <<locked, now, wait_time, wake, depth, result>>
    /\ UNCHANGED <<clock, variant, max_requests, time_window, waits, recorded, calls>>

\* if len(self.requests) >= self.max_requests:
Check(c) ==
    /\ pc[c] = "check"
    /\ UNCHANGED outsideLimiter
    /\ pc' = [pc EXCEPT ![c] =
                IF WindowFull(requests, max_requests) THEN "oldest" ELSE "record"]
    /\ UNCHANGED <<clock, variant, max_requests, time_window, requests, locked,
                   now, wait_time, wake, depth, result, waits, recorded, calls>>

\*     oldest_request = self.requests[0]
\*     wait_time = self.time_window - (now - oldest_request)
\*     if wait_time > 0: sleep(wait_time)
Oldest(c) ==
    /\ pc[c] = "oldest"
    /\ UNCHANGED outsideLimiter
    /\ IF requests = <<>>
       THEN /\ Raised(c, "IndexError")
            /\ UNCHANGED waits
       ELSE LET w == WaitTime(time_window, now[c], Head(requests)) IN
            /\ wait_time' = [wait_time EXCEPT ![c] = w]
            /\ IF w > 0
               THEN /\ pc' = [pc EXCEPT ![c] = "sleep"]
                    /\ wake' = [wake EXCEPT ![c] = clock + w]
                    /\ waits' = [waits EXCEPT ![c] = @ + 1]
               ELSE /\ pc' = [pc EXCEPT ![c] = "record"]
                    /\ UNCHANGED <<wake, waits>>
            /\ UNCHANGED <<locked, now, depth, result>>
    /\ UNCHANGED <<clock, variant, max_requests, time_window, requests,
                   recorded, calls>>

\* The sleep is over: `return self.acquire()` (sync), `await self.acquire()`
\* (async, still inside `async with self.lock`).
Wake(c) ==
    /\ pc[c] = "sleep"
    /\ UNCHANGED outsideLimiter
    /\ clock >= wake[c]
    /\ depth' = [depth EXCEPT ![c] = @ + 1]
    /\ pc' = [pc EXCEPT ![c] = IF variant = "async" THEN "lock" ELSE "now"]
    /\ UNCHANGED <<clock, variant, max_requests, time_window, requests, locked,
                   now, wait_time, wake, result, waits, recorded, calls>>

\* self.requests.append(time.time()), and the return through every frame.
\* An async outer frame leaving `async with` releases a lock the inner frame
\* has already released: RuntimeError.
Record(c) ==
    /\ pc[c] = "record"
    /\ UNCHANGED outsideLimiter
    /\ requests' = AfterInnerReturn(Append(requests, clock), depth[c], clock)
    /\ recorded' = [recorded EXCEPT ![c] = @ + (Len(requests') - Len(requests))]
    /\ locked' = IF variant = "async" THEN FALSE ELSE locked
    /\ pc' = [pc EXCEPT ![c] = "idle"]
    /\ result' = [result EXCEPT ![c] =
                    IF variant = "async" /\ depth[c] > 0 THEN "RuntimeError" ELSE "ok"]
    /\ now' = [now EXCEPT ![c] = 0]
    /\ wait_time' = [wait_time EXCEPT ![c] = 0]
    /\ wake' = [wake EXCEPT ![c] = 0]
    /\ depth' = [depth EXCEPT ![c] = 0]
    /\ UNCHANGED <<clock, variant, max_requests, time_window, waits, calls>>

Step(c) ==
    \/ AcquireCall(c)
    \/ Lock(c)
    \/ ReadNow(c)
    \/ PruneTest(c)
    \/ PrunePop(c)
    \/ Check(c)
    \/ Oldest(c)
    \/ Wake(c)
    \/ Record(c)

\* One caller, calling acquire() again and again.
NextLimiter == Tick \/ Step(1)

\* Several threads / tasks calling acquire() on the same instance.
NextThreads == Tick \/ \E c \in Callers : Step(c)

\* time.sleep / asyncio.sleep return, the clock runs, and a running caller
\* is scheduled.
SpecLimiter ==
    InitLimiter /\ [][NextLimiter]_vars /\ WF_vars(Tick) /\ WF_vars(Step(1))

SpecThreads == InitLimiter /\ [][NextThreads]_vars

Spec == SpecLimiter

----------------------------------------------------------------------------
\* Number of recorded timestamps in the closed interval [t - w, t].
WindowCount(t) ==
    Cardinality({i \in DOMAIN requests :
                    t - time_window <= requests[i] /\ requests[i] <= t})

\* C1: with acquire() called by one caller at a time, no trailing interval of
\* length time_window holds more than max_requests recorded timestamps,
\* the oldest being exactly time_window old included.
C1_WindowBound == \A t \in 0..clock : WindowCount(t) <= max_requests

\* C2: threads calling RateLimiter.acquire() concurrently are serialized, so
\* no interleaving admits more than max_requests requests within one window.
\* Stated for the first window (clock < time_window): every timestamp
\* recorded so far lies in it, and none is yet time_window old.
C2_ThreadsSerialized ==
    (variant = "sync" /\ clock < time_window) => Len(requests) <= max_requests

\* C3: an AsyncRateLimiter.acquire() that found the window full and went to
\* sleep is eventually admitted: it returns normally, with its timestamp
\* recorded and the lock free again.
C3_AsyncEventuallyAdmitted ==
    (variant = "async" /\ pc[1] = "sleep")
        ~> (pc[1] = "idle" /\ result[1] = "ok" /\ recorded[1] = 1 /\ ~locked)

\* C4: a single caller of RateLimiter.acquire() that finds the window full
\* sleeps time_window minus the age of the oldest timestamp, which is positive
\* and at most time_window; it is always admitted in the end, and the call
\* has then recorded exactly one timestamp.
C4_SyncAdmittedAfterWaits ==
    /\ [](variant = "sync" /\ pc[1] = "sleep" =>
            /\ wait_time[1] = time_window - (now[1] - Head(requests))
            /\ wait_time[1] > 0
            /\ wait_time[1] <= time_window)
    /\ [](variant = "sync" /\ pc[1] = "idle" /\ result[1] = "ok" => recorded[1] = 1)
    /\ ((variant = "sync" /\ pc[1] = "sleep") ~> (pc[1] = "idle" /\ result[1] = "ok"))

C4_Witness ==
    /\ variant = "sync"
    /\ pc[1] = "idle"
    /\ result[1] = "ok"
    /\ waits[1] >= 1
    /\ recorded[1] = 1

----------------------------------------------------------------------------
\* Exact rationals <<n, d>>, d > 0, in lowest terms, for the float delays.

RECURSIVE Gcd(_, _)
Gcd(a, b) == IF b = 0 THEN a ELSE Gcd(b, a % b)

Rat(n, d) == LET g == Gcd(n, d) IN IF n = 0 THEN <<0, 1>> ELSE <<n \div g, d \div g>>

RMul(a, b) == Rat(a[1] * b[1], a[2] * b[2])
\* (The denominators are brought to their least common multiple, which keeps
\* the intermediate integers small.)
RAdd(a, b) ==
    LET g == Gcd(a[2], b[2])
    IN Rat(a[1] * (b[2] \div g) + b[1] * (a[2] \div g), (a[2] \div g) * b[2])
RLeq(a, b) ==
    LET g == Gcd(a[2], b[2]) IN a[1] * (b[2] \div g) <= b[1] * (a[2] \div g)
RLt(a, b) ==
    LET g == Gcd(a[2], b[2]) IN a[1] * (b[2] \div g) < b[1] * (a[2] \div g)
RMin(a, b) == IF RLeq(a, b) THEN a ELSE b

RECURSIVE RPow(_, _)
RPow(b, k) == IF k = 0 THEN <<1, 1>> ELSE RMul(b, RPow(b, k - 1))

----------------------------------------------------------------------------
\* retry_with_backoff.wrapper / async_retry_with_backoff.wrapper

\* The exception classes of the model and their base class.
Base(cls) ==
    CASE cls = "RetryableError" -> "APIError"
      [] cls = "RateLimitError" -> "APIError"
      [] cls = "APIError" -> "Exception"
      [] cls = "ValueError" -> "Exception"
      [] OTHER -> "BaseException"

\* issubclass(cls, of)
RECURSIVE IsSubclass(_, _)
IsSubclass(cls, of) ==
    \/ cls = of
    \/ cls # "BaseException" /\ IsSubclass(Base(cls), of)

\* Mutant: a bare `except Exception` instead of the configured classes.
CatchesEverything(classes, cls) == TRUE

\* except retryable_exceptions as e:
Catches(classes, cls) == \E k \in classes : IsSubclass(cls, k)

\* Mutant: the test for the last attempt is missing.
IsLastAttemptNever(a, r) == FALSE

\* Mutant: the bound of the loop is tested one attempt off.
IsLastAttemptOffByOne(a, r) == a + 1 = r

\* if attempt == max_retries:
IsLastAttempt(a, r) == a = r

\* Mutant: the 0.5 offset of the jitter factor is dropped.
JitteredNoOffset(d, u) == RMul(d, u)

\* actual_delay = delay * (0.5 + random.random()), random.random() = u
Jittered(d, u) == RMul(d, RAdd(<<1, 2>>, u))

\* Mutant: the cap is forgotten.
Uncapped(d, m) == d

\* actual_delay = min(actual_delay, max_delay)
Capped(d, m) == RMin(d, m)

\* Mutant: the delay grows by addition.
NextDelayAdded(d, b) == RAdd(d, b)

\* delay *= exponential_base
NextDelay(d, b) == RMul(d, b)

\* The value None; the values invocations return are numbered from 1.
None == 0

\* Mutant: the `return` is missing, the loop goes on after a success.
OnSuccessLoopsOn(v, a, r) ==
    IF a < r THEN [rpc |-> "invoke", outcome |-> <<"none">>, attempt |-> a + 1]
    ELSE [rpc |-> "done", outcome |-> <<"returned", None>>, attempt |-> a]

\* return func(*args, **kwargs): the wrapper ends with the value v that the
\* invocation returned.
OnSuccess(v, a, r) == [rpc |-> "done", outcome |-> <<"returned", v>>, attempt |-> a]

\* Values random.random() can return: it lies in [0, 1).
RandomDraws == {<<0, 1>>, <<1, 4>>, <<3, 4>>}

\* Exception classes the wrapped operation raises.
Raisable == {"RetryableError", "ValueError"}

Invocations == SelectSeq(log, LAMBDA e : e[1] = "invoke")
Sleeps == SelectSeq(log, LAMBDA e : e[1] = "sleep")

InitRetry ==
    /\ wrapper \in {"sync", "async"}
    /\ max_retries \in 0..MaxRetries
    /\ initial_delay \in {<<1, 1>>, <<2, 1>>}
    /\ max_delay \in {<<3, 1>>, <<60, 1>>}
    /\ exponential_base \in {<<1, 2>>, <<1, 1>>, <<2, 1>>}
    /\ jitter \in BOOLEAN
    /\ retryable_exceptions \in {{"Exception"}, {"APIError"}}
    /\ rpc = "invoke"
    /\ attempt = 0
    /\ delay = initial_delay
    /\ actual_delay = <<0, 1>>
    /\ outcome = <<"none">>
    /\ log = <<>>
    /\ LimiterIdle
    /\ GlobalIdle
    /\ StreamIdle
    /\ PairIdle
    /\ ConvIdle
    /\ CostIdle
    /\ TrackerIdle

\* try: return func(*args, **kwargs)      -- the invocation returns
InvokeReturns ==
    /\ rpc = "invoke"
    /\ LET k == Len(Invocations) + 1
           nxt == OnSuccess(k, attempt, max_retries)
       IN /\ log' = Append(log, <<"invoke", "ok">>)
          /\ rpc' = nxt.rpc
          /\ outcome' = nxt.outcome
          /\ attempt' = nxt.attempt
    /\ UNCHANGED <<wrapper, max_retries, initial_delay, max_delay, exponential_base,
                   jitter, retryable_exceptions, delay, actual_delay>>
    /\ UNCHANGED outsideRetry

\* The invocation raises an exception of class cls; with jitter on,
\* random.random() returns u.
InvokeRaises(cls, u) ==
    /\ rpc = "invoke"
    /\ LET k == Len(Invocations) + 1 IN
       /\ log' = Append(log, <<"invoke", cls>>)
       /\ IF ~Catches(retryable_exceptions, cls)
          THEN \* no except clause matches: the exception propagates
               /\ rpc' = "done"
               /\ outcome' = <<"raised", cls, k>>
               /\ UNCHANGED actual_delay
          ELSE IF IsLastAttempt(attempt, max_retries)
          THEN \* raise
               /\ rpc' = "done"
               /\ outcome' = <<"raised", cls, k>>
               /\ UNCHANGED actual_delay
          ELSE /\ actual_delay' = Capped(IF jitter THEN Jittered(delay, u) ELSE delay,
                                         max_delay)
               /\ rpc' = "sleep"
               /\ UNCHANGED outcome
    /\ UNCHANGED <<wrapper, max_retries, initial_delay, max_delay, exponential_base,
                   jitter, retryable_exceptions, attempt, delay>>
    /\ UNCHANGED outsideRetry

\* time.sleep(actual_delay) / await asyncio.sleep(actual_delay);
\* delay *= exponential_base; the next iteration of
\* `for attempt in range(max_retries + 1)`, or the end of the loop, after
\* which the wrapper returns None.
Sleep ==
    /\ rpc = "sleep"
    /\ log' = Append(log, <<"sleep", delay, actual_delay>>)
    /\ delay' = NextDelay(delay, exponential_base)
    /\ IF attempt + 1 <= max_retries
       THEN /\ attempt' = attempt + 1
            /\ rpc' = "invoke"
            /\ UNCHANGED outcome
       ELSE /\ rpc' = "done"
            /\ outcome' = <<"returned", None>>
            /\ UNCHANGED attempt
    /\ UNCHANGED <<wrapper, max_retries, initial_delay, max_delay, exponential_base,
                   jitter, retryable_exceptions, actual_delay>>
    /\ UNCHANGED outsideRetry

NextRetry ==
    \/ InvokeReturns
    \/ \E cls \in Raisable :
          \E u \in (IF jitter THEN RandomDraws ELSE {<<0, 1>>}) : InvokeRaises(cls, u)
    \/ Sleep

SpecRetry == InitRetry /\ [][NextRetry]_vars

----------------------------------------------------------------------------
\* Claims about the retry wrapper (checked under SpecRetry).

\* The result of the i-th invocation: "ok" or the class it raised.
ResultOf(i) == Invocations[i][2]
\* The i-th sleep: `delay` (pre-jitter) and the `actual_delay` slept.
NominalOf(i) == Sleeps[i][2]
SleptOf(i) == Sleeps[i][3]

\* The class is one of the configured retryable_exceptions or derives from one.
IsRetryable(cls) == \E k \in retryable_exceptions : IsSubclass(cls, k)

EveryAttemptFailedRetryably ==
    /\ Invocations # <<>>
    /\ \A i \in DOMAIN Invocations : ResultOf(i) # "ok" /\ IsRetryable(ResultOf(i))

C7_NonRetryablePropagates ==
    \A k \in DOMAIN Invocations :
        (ResultOf(k) # "ok" /\ ~IsRetryable(ResultOf(k))) =>
            /\ rpc = "done"
            /\ outcome = <<"raised", ResultOf(k), k>>
            /\ Len(Invocations) = k
            /\ log[Len(log)] = <<"invoke", ResultOf(k)>>
            /\ Len(Sleeps) = k - 1

C7_Witness ==
    /\ rpc = "done"
    /\ outcome = <<"raised", "ValueError", 2>>
    /\ ~IsRetryable("ValueError")
    /\ attempt < max_retries

NominalNonDecreasing ==
    \A i \in 2..Len(Sleeps) : RLeq(NominalOf(i - 1), NominalOf(i))

SleptWithinMaxDelay ==
    \A i \in DOMAIN Sleeps : RLeq(SleptOf(i), max_delay)

\* C8 as stated: for every configuration the pre-jitter delays are
\* non-decreasing and every delay slept is at most max_delay.
C8_AsStated == NominalNonDecreasing /\ SleptWithinMaxDelay

\* C8 amended: every delay slept is at most max_delay, and the pre-jitter
\* delays are non-decreasing when exponential_base >= 1.
C8_DelaysBounded ==
    /\ SleptWithinMaxDelay
    /\ RLeq(<<1, 1>>, exponential_base) => NominalNonDecreasing

C8_Witness ==
    /\ exponential_base = <<2, 1>>
    /\ Len(Sleeps) >= 3
    /\ RLt(NominalOf(1), NominalOf(2))
    /\ RLt(max_delay, NominalOf(3))
    /\ SleptOf(3) = max_delay

\* C9: without jitter the delay slept after failed attempt a (the first is
\* a = 0) is min(initial_delay * exponential_base^a, max_delay).
C9_ExponentialDelays ==
    ~jitter =>
        \A i \in DOMAIN Sleeps :
            SleptOf(i) = RMin(RMul(initial_delay, RPow(exponential_base, i - 1)),
                              max_delay)

C9_Witness ==
    /\ ~jitter
    /\ exponential_base = <<2, 1>>
    /\ Len(Sleeps) = 3
    /\ SleptOf(1) = initial_delay
    /\ SleptOf(2) = RMul(<<2, 1>>, initial_delay)
    /\ SleptOf(3) = RMul(<<4, 1>>, initial_delay)

\* C10 as stated: with jitter the delay slept is the nominal delay times a
\* factor in [0.5, 1.0] (cut at max_delay), so it never exceeds the nominal
\* delay of the attempt.
C10_AsStated ==
    jitter =>
        \A i \in DOMAIN Sleeps :
            /\ RLeq(SleptOf(i), NominalOf(i))
            /\ \/ RLeq(RMul(<<1, 2>>, NominalOf(i)), SleptOf(i))
               \/ SleptOf(i) = max_delay

\* C10 amended: with jitter the delay slept is min(nominal * f, max_delay)
\* for a factor f in [0.5, 1.5): at least half the nominal delay unless cut at
\* max_delay, below 1.5 times the nominal delay, never above max_delay.
C10_JitterRange ==
    jitter =>
        \A i \in DOMAIN Sleeps :
            /\ RLeq(SleptOf(i), max_delay)
            /\ RLeq(SleptOf(i), RMul(<<3, 2>>, NominalOf(i)))
            /\ RLt(<<0, 1>>, NominalOf(i)) =>
                  RLt(SleptOf(i), RMul(<<3, 2>>, NominalOf(i)))
            /\ \/ RLeq(RMul(<<1, 2>>, NominalOf(i)), SleptOf(i))
               \/ SleptOf(i) = max_delay

C10_Witness ==
    /\ jitter
    /\ \E i \in DOMAIN Sleeps :
          /\ RLt(NominalOf(i), SleptOf(i))
          /\ RLt(SleptOf(i), max_delay)

\* C11: the wrapper sleeps only between attempts: every sleep directly follows
\* a failed invocation and is followed by the next invocation, and a finished
\* run ends with an invocation, with one sleep fewer than invocations.
C11_SleepsOnlyBetweenAttempts ==
    /\ \A i \in DOMAIN log :
          log[i][1] = "sleep" =>
              /\ i > 1
              /\ log[i - 1][1] = "invoke"
              /\ log[i - 1][2] # "ok"
              /\ IF i < Len(log) THEN log[i + 1][1] = "invoke" ELSE rpc = "invoke"
    /\ rpc = "done" =>
          /\ log # <<>>
          /\ log[Len(log)][1] = "invoke"
          /\ Len(Sleeps) = Len(Invocations) - 1

C11_Witness ==
    /\ rpc = "done"
    /\ Len(Invocations) = 3
    /\ Len(Sleeps) = 2
    /\ outcome[1] = "raised"

----------------------------------------------------------------------------
\* utils/cost_tracker.py: MODEL_PRICING and calculate_cost

\* MODEL_PRICING, in the order of the dict literal (prices per 1K tokens).
MODEL_PRICING == <<
    [name |-> <<"gpt-4">>,
     prompt |-> Rat(3, 100), completion |-> Rat(6, 100)],
    [name |-> <<"gpt-4", "-32k">>,
     prompt |-> Rat(6, 100), completion |-> Rat(12, 100)],
    [name |-> <<"gpt-4", "-turbo">>,
     prompt |-> Rat(1, 100), completion |-> Rat(3, 100)],
    [name |-> <<"gpt-4", "-turbo", "-preview">>,
     prompt |-> Rat(1, 100), completion |-> Rat(3, 100)],
    [name |-> <<"gpt-3.5", "-turbo">>,
     prompt |-> Rat(5, 10000), completion |-> Rat(15, 10000)],
    [name |-> <<"gpt-3.5", "-turbo", "-16k">>,
     prompt |-> Rat(3, 1000), completion |-> Rat(4, 1000)],
    [name |-> <<"text-embedding", "-3-small">>,
     prompt |-> Rat(2, 100000), completion |-> Rat(0, 1)],
    [name |-> <<"text-embedding", "-3-large">>,
     prompt |-> Rat(13, 100000), completion |-> Rat(0, 1)],
    [name |-> <<"text-embedding", "-ada-002">>,
     prompt |-> Rat(1, 10000), completion |-> Rat(0, 1)],
    [name |-> <<"davinci-002">>,
     prompt |-> Rat(2, 1000), completion |-> Rat(2, 1000)],
    [name |-> <<"babbage-002">>,
     prompt |-> Rat(4, 10000), completion |-> Rat(4, 10000)] >>

\* a in b, for strings: a occurs in b as a contiguous run.
Contains(a, b) ==
    \E i \in 0..(Len(b) - Len(a)) : \A j \in 1..Len(a) : b[i + j] = a[j]

\* MODEL_PRICING.get(model): the index of the entry with that key, 0 for None.
ExactEntry(model) ==
    IF \E i \in DOMAIN MODEL_PRICING : MODEL_PRICING[i].name = model
    THEN CHOOSE i \in DOMAIN MODEL_PRICING : MODEL_PRICING[i].name = model
    ELSE 0

\* Mutant: the loop has no `break`, the last matching entry wins.
LastPartialEntry(model) ==
    LET hits == {i \in DOMAIN MODEL_PRICING : Contains(MODEL_PRICING[i].name, model)}
    IN IF hits = {} THEN 0 ELSE CHOOSE i \in hits : \A j \in hits : j <= i

\* for model_name, model_pricing in MODEL_PRICING.items():
\*     if model_name in model: pricing = model_pricing; break
\* The index of the first entry whose name occurs in model, 0 when the loop
\* ends without a break.
FirstPartialEntry(model) ==
    LET hits == {i \in DOMAIN MODEL_PRICING : Contains(MODEL_PRICING[i].name, model)}
    IN IF hits = {} THEN 0 ELSE CHOOSE i \in hits : \A j \in hits : i <= j

\* Mutant: an unknown model is priced with the gpt-3.5-turbo entry.
PricingEntryDefaulting(model) ==
    IF ExactEntry(model) # 0 THEN ExactEntry(model)
    ELSE IF FirstPartialEntry(model) # 0 THEN FirstPartialEntry(model) ELSE 5

\* pricing = MODEL_PRICING.get(model); if not pricing: <partial match>
PricingEntry(model) ==
    IF ExactEntry(model) # 0 THEN ExactEntry(model) ELSE FirstPartialEntry(model)

\* Mutant: the completion cost is subtracted.
CostOfSubtracted(p, c, pricing) ==
    RAdd(RMul(Rat(p, 1000), pricing.prompt),
         RMul(Rat(0 - c, 1000), pricing.completion))

\* prompt_cost = (prompt_tokens / 1000) * pricing["prompt"]
\* completion_cost = (completion_tokens / 1000) * pricing["completion"]
\* return prompt_cost + completion_cost
CostOf(p, c, pricing) ==
    RAdd(RMul(Rat(p, 1000), pricing.prompt), RMul(Rat(c, 1000), pricing.completion))

\* calculate_cost(prompt_tokens, completion_tokens, model)
CalculateCost(p, c, model) ==
    LET e == PricingEntry(model)
    IN IF e = 0 THEN <<"ValueError">> ELSE <<"ok", CostOf(p, c, MODEL_PRICING[e])>>

\* Text blocks the model names of the checks are made of.
NameBlocks == {"gpt-4", "-32k", "-turbo", "gpt-3.5", "ft:", "babbage-002"}

RECURSIVE NamesUpTo(_)
NamesUpTo(n) ==
    IF n = 0 THEN {<<>>}
    ELSE LET shorter == NamesUpTo(n - 1)
         IN shorter \cup {Append(m, b) : m \in shorter, b \in NameBlocks}

\* Token counts of the checks; the code accepts any int.
TokenCounts == {-100, 0, 50, 100, 200}

InitCost ==
    /\ cc_prompt \in TokenCounts
    /\ cc_completion \in TokenCounts
    /\ cc_model \in NamesUpTo(MaxNameLen)
    /\ cc_result = <<"none">>
    /\ LimiterIdle
    /\ GlobalIdle
    /\ StreamIdle
    /\ PairIdle
    /\ ConvIdle
    /\ RetryIdle
    /\ TrackerIdle

\* The call of calculate_cost.
CallCalculateCost ==
    /\ cc_result = <<"none">>
    /\ cc_result' = CalculateCost(cc_prompt, cc_completion, cc_model)
    /\ UNCHANGED <<cc_prompt, cc_completion, cc_model>>
    /\ UNCHANGED outsideCost

NextCost == CallCalculateCost

SpecCost == InitCost /\ [][NextCost]_vars

----------------------------------------------------------------------------
\* utils/cost_tracker.py: CostTracker; the solution's CostTracker.
\* A record of self.calls keeps the fields the totals and the report read;
\* its timestamp and metadata are left out.

\* call_data
CallData(p, c, model, cost) ==
    [model |-> model, prompt_tokens |-> p, completion_tokens |-> c,
     total_tokens |-> p + c, cost |-> cost]

\* Mutant: the record is inserted at the front of the list.
PrependCall(cs, rec) == <<rec>> \o cs

\* self.calls.append(call_data)
AppendCall(cs, rec) == Append(cs, rec)

\* get_total_cost: sum(call["cost"] for call in self.calls)
RECURSIVE GetTotalCost(_)
GetTotalCost(cs) ==
    IF cs = <<>> THEN <<0, 1>>
    ELSE RAdd(GetTotalCost(SubSeq(cs, 1, Len(cs) - 1)), cs[Len(cs)].cost)

\* get_total_tokens: sum(call["total_tokens"] for call in self.calls)
RECURSIVE GetTotalTokens(_)
GetTotalTokens(cs) ==
    IF cs = <<>> THEN 0
    ELSE GetTotalTokens(SubSeq(cs, 1, Len(cs) - 1)) + cs[Len(cs)].total_tokens

\* Mutant: the warning threshold is tested first.
CheckThresholdsWarningFirst(total, warning, max) ==
    IF RLeq(warning, total) THEN "warn"
    ELSE IF RLeq(max, total) THEN "raise" ELSE "ok"

\* Mutant: the hard threshold must be exceeded, not only reached.
CheckThresholdsStrict(total, warning, max) ==
    IF RLt(max, total) THEN "raise"
    ELSE IF RLeq(warning, total) THEN "warn" ELSE "ok"

\* _check_thresholds: raise CostLimitExceeded, print the warning, or neither.
CheckThresholds(total, warning, max) ==
    IF RLeq(max, total) THEN "raise"
    ELSE IF RLeq(warning, total) THEN "warn" ELSE "ok"

\* Mutant: the thresholds are checked first, a call over the limit is not
\* recorded.
CheckThenAppend(cs, rec, warning, max) ==
    LET after == AppendCall(cs, rec)
        verdict == CheckThresholds(GetTotalCost(after), warning, max)
    IN [calls |-> IF verdict = "raise" THEN cs ELSE after, verdict |-> verdict]

\* self.calls.append(call_data); self._check_thresholds()
AppendThenCheck(cs, rec, warning, max) ==
    LET after == AppendCall(cs, rec)
    IN [calls |-> after,
        verdict |-> CheckThresholds(GetTotalCost(after), warning, max)]

\* The solution's PRICING.
PRICING == <<
    [name |-> <<"gpt-3.5", "-turbo">>, input |-> Rat(15, 10000), output |-> Rat(2, 1000)],
    [name |-> <<"gpt-4", "-turbo">>, input |-> Rat(1, 100), output |-> Rat(3, 100)] >>

\* rates = self.PRICING.get(model, self.PRICING["gpt-3.5-turbo"])
SolutionRates(model) ==
    IF \E i \in DOMAIN PRICING : PRICING[i].name = model
    THEN PRICING[CHOOSE i \in DOMAIN PRICING : PRICING[i].name = model]
    ELSE PRICING[1]

\* cost = (prompt_tokens/1000 * rates["input"]) + (completion_tokens/1000 * rates["output"])
SolutionCost(p, c, rates) ==
    RAdd(RMul(Rat(p, 1000), rates.input), RMul(Rat(c, 1000), rates.output))

\* Mutant: the total is overwritten by the cost of the call.
AccumulateCostOverwrites(total, cost) == cost

\* self.total_cost += cost
AccumulateCost(total, cost) == RAdd(total, cost)

\* get_stats()["total_tokens"]
RECURSIVE SolutionTotalTokens(_)
SolutionTotalTokens(cs) ==
    IF cs = <<>> THEN 0
    ELSE SolutionTotalTokens(SubSeq(cs, 1, Len(cs) - 1))
            + cs[Len(cs)].prompt_tokens + cs[Len(cs)].completion_tokens

\* Model names and token counts the trackers are called with.
TrackedModels == {<<"gpt-3.5", "-turbo">>, <<"gpt-4">>, <<"ft:", "gpt-4">>, <<"claude">>}
TokenPairs == {<<100, 200>>, <<50, 100>>, <<-100, 0>>}

\* <<warning, max>>: the defaults, and a setting the calls of the model reach
\* (0.00035 and 0.015 dollars).
ThresholdSettings == {<<Rat(10, 1), Rat(50, 1)>>, <<Rat(35, 100000), Rat(15, 1000)>>}

\* CostTracker.__init__ (either class)
InitTracker ==
    /\ tracker \in {"utils", "solution"}
    /\ tracker_calls = <<>>
    /\ total_cost = <<0, 1>>
    /\ \E t \in ThresholdSettings :
          /\ tracker = "solution" => t = <<Rat(10, 1), Rat(50, 1)>>
          /\ warning_threshold = t[1]
          /\ max_threshold = t[2]
    /\ track_args = <<>>
    /\ track_result = <<"none">>
    /\ warned = FALSE
    /\ tracked = <<>>
    /\ report = [kind |-> "none"]
    /\ LimiterIdle
    /\ GlobalIdle
    /\ StreamIdle
    /\ PairIdle
    /\ ConvIdle
    /\ RetryIdle
    /\ CostIdle

\* The body of track_tokens: what it does to the tracker.
TrackTokensBody(p, c, model) ==
    /\ tracker = "utils"
    /\ Len(tracker_calls) < MaxTracked
    /\ track_args' = <<p, c, model>>
    /\ LET r == CalculateCost(p, c, model) IN
       IF r[1] # "ok"
       THEN \* calculate_cost raised: nothing else has run
            /\ track_result' = r
            /\ warned' = FALSE
            /\ UNCHANGED <<tracker_calls, tracked, report>>
       ELSE LET done == AppendThenCheck(tracker_calls, CallData(p, c, model, r[2]),
                                        warning_threshold, max_threshold)
            IN /\ tracker_calls' = done.calls
               /\ tracked' = Append(tracked, <<p, c, model, r[2]>>)
               /\ report' = [kind |-> "none"]
               /\ warned' = (done.verdict = "warn")
               /\ track_result' = IF done.verdict = "raise"
                                  THEN <<"CostLimitExceeded">>
                                  ELSE <<"returned", r[2]>>
    /\ UNCHANGED <<tracker, total_cost, warning_threshold, max_threshold>>

\* CostTracker.track_tokens(prompt_tokens, completion_tokens, model)
TrackTokens(p, c, model) ==
    /\ TrackTokensBody(p, c, model)
    /\ UNCHANGED outsideTracker

\* The solution's CostTracker.track_call(prompt_tokens, completion_tokens, model)
TrackCall(p, c, model) ==
    /\ tracker = "solution"
    /\ Len(tracker_calls) < MaxTracked
    /\ track_args' = <<p, c, model>>
    /\ LET cost == SolutionCost(p, c, SolutionRates(model)) IN
       /\ tracker_calls' = Append(tracker_calls,
                                  [prompt_tokens |-> p, completion_tokens |-> c,
                                   cost |-> cost, model |-> model])
       /\ total_cost' = AccumulateCost(total_cost, cost)
       /\ tracked' = Append(tracked, <<p, c, model, cost>>)
       /\ track_result' = <<"returned", cost>>
    /\ UNCHANGED <<warning_threshold, max_threshold, tracker, warned, report>>
    /\ UNCHANGED outsideTracker

\* Mutant: the cost of a model is overwritten by the cost of its last call.
AddToModelOverwrites(entry, call) ==
    [calls |-> entry.calls + 1, cost |-> call.cost,
     tokens |-> entry.tokens + call.total_tokens]

\* by_model[model]["calls"] += 1; ["cost"] += call["cost"];
\* ["tokens"] += call["total_tokens"]
AddToModel(entry, call) ==
    [calls |-> entry.calls + 1, cost |-> RAdd(entry.cost, call.cost),
     tokens |-> entry.tokens + call.total_tokens]

\* The loop `for call in self.calls` that groups by model.
RECURSIVE GroupByModel(_)
GroupByModel(cs) ==
    IF cs = <<>> THEN [m \in {} |-> 0]
    ELSE LET by_model == GroupByModel(SubSeq(cs, 1, Len(cs) - 1))
             call == cs[Len(cs)]
             entry == IF call.model \in DOMAIN by_model THEN by_model[call.model]
                      ELSE [calls |-> 0, cost |-> <<0, 1>>, tokens |-> 0]
         IN [m \in DOMAIN by_model \cup {call.model} |->
                IF m = call.model THEN AddToModel(entry, call) ELSE by_model[m]]

\* round(total_cost, 4). The float is rounded to the nearer multiple of
\* 0.0001; a total that is exactly halfway in decimal is not exactly halfway
\* as a float, and goes to either neighbour.
Round4(r) ==
    LET down == (r[1] * 10000) \div r[2]
        rest == r[1] * 10000 - down * r[2]
    IN IF 2 * rest < r[2] THEN {Rat(down, 10000)}
       ELSE IF 2 * rest > r[2] THEN {Rat(down + 1, 10000)}
       ELSE {Rat(down, 10000), Rat(down + 1, 10000)}

\* CostTracker.get_session_report(); session_name, the times and the alias
\* "calls" of self.calls are left out.
GetSessionReportBody ==
    /\ tracker = "utils"
    /\ IF tracker_calls = <<>>
       THEN report' = [kind |-> "empty", total_calls |-> 0, total_cost |-> <<0, 1>>,
                       total_tokens |-> 0]
       ELSE \E rounded \in Round4(GetTotalCost(tracker_calls)) :
               report' = [kind |-> "full",
                          total_calls |-> Len(tracker_calls),
                          total_cost |-> rounded,
                          total_tokens |-> GetTotalTokens(tracker_calls),
                          by_model |-> GroupByModel(tracker_calls)]
    /\ UNCHANGED <<tracker, tracker_calls, total_cost, warning_threshold, max_threshold,
                   track_args, track_result, warned, tracked>>

GetSessionReport ==
    /\ GetSessionReportBody
    /\ UNCHANGED outsideTracker

NextTracker ==
    \/ \E t \in TokenPairs, model \in TrackedModels :
          \/ TrackTokens(t[1], t[2], model)
          \/ TrackCall(t[1], t[2], model)
    \/ GetSessionReport

SpecTracker == InitTracker /\ [][NextTracker]_vars

----------------------------------------------------------------------------
\* Claims about calculate_cost.

\* The name a starts the name b.
StartsWith(a, b) == Len(a) <= Len(b) /\ SubSeq(b, 1, Len(a)) = a

\* The name a occurs somewhere in the name b.
OccursIn(a, b) ==
    \E i \in 1..(Len(b) - Len(a) + 1) : SubSeq(b, i, i + Len(a) - 1) = a

\* (prompt_tokens / 1000) * prompt + (completion_tokens / 1000) * completion
\* at the prices of entry e of the table.
PricedAt(p, c, e) ==
    RAdd(RMul(Rat(p, 1000), MODEL_PRICING[e].prompt),
         RMul(Rat(c, 1000), MODEL_PRICING[e].completion))

Equal(model) == {i \in DOMAIN MODEL_PRICING : MODEL_PRICING[i].name = model}
Prefixes(model) == {i \in DOMAIN MODEL_PRICING : StartsWith(MODEL_PRICING[i].name, model)}
Occurring(model) == {i \in DOMAIN MODEL_PRICING : OccursIn(MODEL_PRICING[i].name, model)}
First(S) == CHOOSE i \in S : \A j \in S : i <= j

\* C12 as stated: the cost is priced by the entry equal to the model, else by
\* the first entry whose name is a prefix of the model.
C12_AsStated ==
    cc_result # <<"none">> =>
        IF Equal(cc_model) # {}
        THEN cc_result = <<"ok", PricedAt(cc_prompt, cc_completion, First(Equal(cc_model)))>>
        ELSE IF Prefixes(cc_model) # {}
        THEN cc_result = <<"ok", PricedAt(cc_prompt, cc_completion, First(Prefixes(cc_model)))>>
        ELSE cc_result[1] # "ok"

\* C12: calculate_cost returns (prompt_tokens / 1000) * prompt price +
\* (completion_tokens / 1000) * completion price at the prices of the entry
\* whose name equals the model or, when none does, of the first entry in table
\* order whose name occurs anywhere in the model name.
C12_SubstringLookup ==
    cc_result # <<"none">> =>
        IF Equal(cc_model) # {}
        THEN cc_result = <<"ok", PricedAt(cc_prompt, cc_completion, First(Equal(cc_model)))>>
        ELSE IF Occurring(cc_model) # {}
        THEN cc_result = <<"ok", PricedAt(cc_prompt, cc_completion, First(Occurring(cc_model)))>>
        ELSE cc_result[1] # "ok"

\* A fine-tuned gpt-4-turbo name is priced as gpt-4, the first entry occurring
\* in it: 100 and 200 tokens cost 0.003 + 0.012 dollars.
C12_Witness ==
    /\ cc_model = <<"ft:", "gpt-4", "-turbo">>
    /\ cc_prompt = 100
    /\ cc_completion = 200
    /\ cc_result = <<"ok", <<3, 200>>>>

----------------------------------------------------------------------------
\* Claims about the cost trackers.

\* No entry of MODEL_PRICING equals the name or occurs in it.
NoEntry(model) == Equal(model) = {} /\ Occurring(model) = {}

\* C13: in utils.cost_tracker a call whose model name matches no price-table
\* entry raises the lookup error (ValueError) and no other call does, and a
\* track_tokens call that fails this way leaves the call list and the totals
\* as they were.
C13_UnknownModelRaises ==
    /\ [](tracker = "utils" /\ track_args # <<>> =>
            (NoEntry(track_args[3]) <=> track_result = <<"ValueError">>))
    /\ [][(tracker = "utils" /\ track_args' # <<>> /\ NoEntry(track_args'[3])) =>
            /\ tracker_calls' = tracker_calls
            /\ GetTotalCost(tracker_calls') = GetTotalCost(tracker_calls)
            /\ GetTotalTokens(tracker_calls') = GetTotalTokens(tracker_calls)]_vars

\* An unknown model after two recorded calls: the two records are still there.
C13_Witness ==
    /\ tracker = "utils"
    /\ track_args # <<>>
    /\ track_args[3] = <<"claude">>
    /\ track_result = <<"ValueError">>
    /\ Len(tracker_calls) = 2

\* C14: the solution's track_call with a model name that is not in PRICING
\* raises instead of returning a cost at another model's rates.
C14_SolutionUnknownModelRaises ==
    (/\ tracker = "solution"
     /\ track_args # <<>>
     /\ \A i \in DOMAIN PRICING : PRICING[i].name # track_args[3])
        => track_result[1] # "returned"

RECURSIVE SumOfCosts(_)
SumOfCosts(h) ==
    IF h = <<>> THEN <<0, 1>> ELSE RAdd(h[1][4], SumOfCosts(Tail(h)))

RECURSIVE SumOfTokens(_)
SumOfTokens(h) ==
    IF h = <<>> THEN 0 ELSE h[1][1] + h[1][2] + SumOfTokens(Tail(h))

\* The totals each tracker reports.
TotalCostOf == IF tracker = "utils" THEN GetTotalCost(tracker_calls) ELSE total_cost
TotalTokensOf ==
    IF tracker = "utils" THEN GetTotalTokens(tracker_calls)
    ELSE SolutionTotalTokens(tracker_calls)

\* C15: on either tracker the total cost is the sum of the costs computed by
\* the individual track calls, and the total token count is the sum of
\* prompt_tokens + completion_tokens over the records.
C15_TotalsAreSums ==
    /\ Len(tracker_calls) = Len(tracked)
    /\ \A i \in DOMAIN tracker_calls :
          /\ tracker_calls[i].cost = tracked[i][4]
          /\ tracker_calls[i].prompt_tokens = tracked[i][1]
          /\ tracker_calls[i].completion_tokens = tracked[i][2]
    /\ TotalCostOf = SumOfCosts(tracked)
    /\ TotalTokensOf = SumOfTokens(tracked)

\* (100, 200) then (50, 100) on gpt-3.5-turbo: 450 tokens, and the solution's
\* total is 0.00055 + 0.000275 dollars.
C15_Witness ==
    /\ tracker = "solution"
    /\ Len(tracked) = 2
    /\ tracked[1] = <<100, 200, <<"gpt-3.5", "-turbo">>, <<11, 20000>>>>
    /\ tracked[2] = <<50, 100, <<"gpt-3.5", "-turbo">>, <<11, 40000>>>>
    /\ TotalTokensOf = 450
    /\ TotalCostOf = <<33, 40000>>

RECURSIVE ModelCostSum(_, _)
ModelCostSum(by_model, S) ==
    IF S = {} THEN <<0, 1>>
    ELSE LET m == CHOOSE m \in S : TRUE
         IN RAdd(by_model[m].cost, ModelCostSum(by_model, S \ {m}))

RECURSIVE ModelTokenSum(_, _)
ModelTokenSum(by_model, S) ==
    IF S = {} THEN 0
    ELSE LET m == CHOOSE m \in S : TRUE
         IN by_model[m].tokens + ModelTokenSum(by_model, S \ {m})

RECURSIVE ModelCallSum(_, _)
ModelCallSum(by_model, S) ==
    IF S = {} THEN 0
    ELSE LET m == CHOOSE m \in S : TRUE
         IN by_model[m].calls + ModelCallSum(by_model, S \ {m})

\* C16: in a report of a tracker with at least one record the per-model costs
\* summed equal total_cost, the per-model token counts summed equal
\* total_tokens, and the per-model call counts summed equal total_calls.
C16_BreakdownSumsToTotals ==
    report.kind = "full" =>
        /\ ModelCostSum(report.by_model, DOMAIN report.by_model) = report.total_cost
        /\ ModelTokenSum(report.by_model, DOMAIN report.by_model) = report.total_tokens
        /\ ModelCallSum(report.by_model, DOMAIN report.by_model) = report.total_calls

\* What the report does keep: the token and call sums, and the cost sum
\* against the unrounded get_total_cost().
C16_SumsOfUnroundedCost ==
    report.kind = "full" =>
        /\ ModelCostSum(report.by_model, DOMAIN report.by_model) = GetTotalCost(tracker_calls)
        /\ ModelTokenSum(report.by_model, DOMAIN report.by_model) = report.total_tokens
        /\ ModelCallSum(report.by_model, DOMAIN report.by_model) = report.total_calls

\* The record describes the call <<prompt, completion, model>> with that cost.
Describes(rec, p, c, model, cost) ==
    /\ rec.model = model
    /\ rec.prompt_tokens = p
    /\ rec.completion_tokens = c
    /\ rec.total_tokens = p + c
    /\ rec.cost = cost

\* C17: the call list of CostTracker is an insertion-ordered log: the i-th
\* record describes the i-th call that computed a cost, and a step either
\* leaves the list alone or adds one record at the end, the earlier records
\* staying as they were.
C17_InsertionOrderedLog ==
    /\ [](tracker = "utils" =>
            /\ Len(tracker_calls) = Len(tracked)
            /\ \A i \in DOMAIN tracker_calls :
                  Describes(tracker_calls[i], tracked[i][1], tracked[i][2],
                            tracked[i][3], tracked[i][4]))
    /\ [][tracker = "utils" =>
            \/ tracker_calls' = tracker_calls
            \/ /\ track_result'[1] \in {"returned", "CostLimitExceeded"}
               /\ Len(tracker_calls') = Len(tracker_calls) + 1
               /\ SubSeq(tracker_calls', 1, Len(tracker_calls)) = tracker_calls
               /\ tracker_calls'[Len(tracker_calls')].model = track_args'[3]
               /\ tracker_calls'[Len(tracker_calls')].prompt_tokens = track_args'[1]
               /\ tracker_calls'[Len(tracker_calls')].completion_tokens = track_args'[2]]_vars

\* Three different calls, stored in the order they were made.
C17_Witness ==
    /\ tracker = "utils"
    /\ Len(tracker_calls) = 3
    /\ tracker_calls[1].model = <<"gpt-4">>
    /\ tracker_calls[2].model = <<"ft:", "gpt-4">>
    /\ tracker_calls[3].model = <<"gpt-3.5", "-turbo">>
    /\ tracked[1][3] = <<"gpt-4">>
    /\ tracked[3][3] = <<"gpt-3.5", "-turbo">>

\* C18: across the track_tokens calls on one CostTracker, get_total_cost()
\* and get_total_tokens() never decrease.
C18_TotalsNeverDecrease ==
    [][tracker = "utils" =>
         /\ RLeq(GetTotalCost(tracker_calls), GetTotalCost(tracker_calls'))
         /\ GetTotalTokens(tracker_calls) <= GetTotalTokens(tracker_calls')]_vars

\* What the code keeps: a call with token counts that are not negative does
\* not decrease the totals.
C18_NonNegativeCallsNeverDecrease ==
    [][(tracker = "utils" /\ track_args' # <<>> /\ track_args'[1] >= 0
            /\ track_args'[2] >= 0) =>
         /\ RLeq(GetTotalCost(tracker_calls), GetTotalCost(tracker_calls'))
         /\ GetTotalTokens(tracker_calls) <= GetTotalTokens(tracker_calls')]_vars

\* C19: track_tokens raises CostLimitExceeded exactly when the session total,
\* the call just tracked included, has reached the max threshold; when the
\* total has reached the warning threshold and is below the max threshold it
\* prints the warning and returns the cost of the call; below both it returns
\* the cost without a warning.
C19_ThresholdOutcome ==
    (tracker = "utils" /\ track_result[1] \in {"returned", "CostLimitExceeded"}) =>
        LET total == SumOfCosts(tracked)
            cost == tracked[Len(tracked)][4]
        IN /\ track_result = <<"CostLimitExceeded">> <=> RLeq(max_threshold, total)
           /\ RLt(total, max_threshold) =>
                 /\ track_result = <<"returned", cost>>
                 /\ warned <=> RLeq(warning_threshold, total)
           /\ RLeq(max_threshold, total) => ~warned

\* The total reaches the max threshold exactly and the call raises.
C19_Witness ==
    /\ tracker = "utils"
    /\ track_result = <<"CostLimitExceeded">>
    /\ SumOfCosts(tracked) = max_threshold
    /\ Len(tracked) = 2

\* C20: when track_tokens raises CostLimitExceeded, the record of that call
\* is already the last one of the call list and is counted in the totals.
C20_TippingCallRecorded ==
    (tracker = "utils" /\ track_result = <<"CostLimitExceeded">>) =>
        /\ tracker_calls # <<>>
        /\ Len(tracker_calls) = Len(tracked)
        /\ LET rec == tracker_calls[Len(tracker_calls)]
           IN /\ rec.model = track_args[3]
              /\ rec.prompt_tokens = track_args[1]
              /\ rec.completion_tokens = track_args[2]
        /\ GetTotalCost(tracker_calls) = SumOfCosts(tracked)
        /\ GetTotalTokens(tracker_calls) = SumOfTokens(tracked)
        /\ RLeq(max_threshold, GetTotalCost(tracker_calls))

\* The second call tips the total over the max threshold and is recorded.
C20_Witness ==
    /\ tracker = "utils"
    /\ track_result = <<"CostLimitExceeded">>
    /\ Len(tracker_calls) = 2
    /\ RLt(tracker_calls[1].cost, max_threshold)
    /\ RLt(max_threshold, GetTotalCost(tracker_calls))

\* A step that is a track_tokens call: it records a call, or it fails and
\* leaves the report alone (get_session_report changes only the report).
TrackStep == tracked' # tracked \/ report' = report

\* The session total has reached the max threshold.
Tipped == RLeq(max_threshold, SumOfCosts(tracked))

\* C21 as stated: once the total is over the max threshold every later
\* track_tokens call with non-negative token counts raises CostLimitExceeded.
C21_AsStated ==
    [][(tracker = "utils" /\ Tipped /\ TrackStep
            /\ track_args'[1] >= 0 /\ track_args'[2] >= 0)
        => track_result' = <<"CostLimitExceeded">>]_vars

\* C21: once the total has reached the max threshold, every later
\* track_tokens call with non-negative token counts is refused: with a model
\* name the price table matches it is recorded and raises CostLimitExceeded,
\* with any other model name it raises ValueError and records nothing.
C21_LaterCallsRefused ==
    [][(tracker = "utils" /\ Tipped /\ TrackStep
            /\ track_args'[1] >= 0 /\ track_args'[2] >= 0)
        => IF NoEntry(track_args'[3])
           THEN track_result' = <<"ValueError">> /\ tracker_calls' = tracker_calls
           ELSE /\ track_result' = <<"CostLimitExceeded">>
                /\ Len(tracker_calls') = Len(tracker_calls) + 1]_vars

\* The second call tips the total over, the third is refused too.
C21_Witness ==
    /\ tracker = "utils"
    /\ Len(tracked) = 3
    /\ RLt(tracked[1][4], max_threshold)
    /\ RLeq(max_threshold, RAdd(tracked[1][4], tracked[2][4]))
    /\ tracked[3][1] >= 0
    /\ tracked[3][2] >= 0
    /\ track_result = <<"CostLimitExceeded">>

----------------------------------------------------------------------------
\* solutions/04-conversation-manager-solution.py: ConversationManager.
\* A message is a record [role, id, tokens]: tokens is
\* len(self.encoding.encode(content)), id tells the messages apart.

\* count_tokens(): the tokens of all messages
RECURSIVE CountTokens(_)
CountTokens(msgs) ==
    IF msgs = <<>> THEN 0 ELSE msgs[1].tokens + CountTokens(Tail(msgs))

\* Mutant: the first message is removed.
PopFirst(msgs) == Tail(msgs)

\* self.messages.pop(1)
PopOldest(msgs) == <<msgs[1]>> \o SubSeq(msgs, 3, Len(msgs))

\* The loop of trim_history:
\* while self.count_tokens() > self.max_context_tokens and len(self.messages) > 2
RECURSIVE Trimmed(_, _)
Trimmed(msgs, limit) ==
    IF CountTokens(msgs) > limit /\ Len(msgs) > 2
    THEN Trimmed(PopOldest(msgs), limit)
    ELSE msgs

\* Token counts of the system prompt and of the other messages, the context
\* limits, and the usage.total_tokens of a response.
SystemTokens == {1, 5}
MessageTokens == {2, 4}
ContextLimits == {4, 7}
UsageTokens == {10}

\* ConversationManager.__init__
InitConv ==
    /\ \E t \in SystemTokens : messages = <<[role |-> "system", id |-> 0, tokens |-> t]>>
    /\ max_context_tokens \in ContextLimits
    /\ total_tokens_used = 0
    /\ added = 0
    /\ conv_op = "init"
    /\ conv_before = messages
    /\ conv_before_total = 0
    /\ LimiterIdle
    /\ GlobalIdle
    /\ StreamIdle
    /\ PairIdle
    /\ RetryIdle
    /\ CostIdle
    /\ TrackerIdle

\* The message number added + 1 with that role and token count.
NewMessage(role, t) == [role |-> role, id |-> added + 1, tokens |-> t]

\* add_message(role, content)
AddMessage(role, t) ==
    /\ added < MaxAdded
    /\ messages' = Append(messages, NewMessage(role, t))
    /\ added' = added + 1
    /\ conv_op' = "add"
    /\ conv_before' = messages
    /\ conv_before_total' = total_tokens_used
    /\ UNCHANGED <<max_context_tokens, total_tokens_used>>
    /\ UNCHANGED outsideConv

\* trim_history()
TrimHistory ==
    /\ messages' = Trimmed(messages, max_context_tokens)
    /\ conv_op' = "trim"
    /\ conv_before' = messages
    /\ conv_before_total' = total_tokens_used
    /\ UNCHANGED <<max_context_tokens, total_tokens_used, added>>
    /\ UNCHANGED outsideConv

\* send_message(user_message), the API call returns a response
SendMessageReturns(t, reply, used) ==
    /\ added + 1 < MaxAdded
    /\ LET sent == Trimmed(Append(messages, NewMessage("user", t)), max_context_tokens)
       IN messages' = Append(sent, [role |-> "assistant", id |-> added + 2, tokens |-> reply])
    /\ total_tokens_used' = total_tokens_used + used
    /\ added' = added + 2
    /\ conv_op' = "sent"
    /\ conv_before' = messages
    /\ conv_before_total' = total_tokens_used
    /\ UNCHANGED max_context_tokens
    /\ UNCHANGED outsideConv

\* send_message(user_message), the API call raises: self.messages.pop()
SendMessageRaises(t) ==
    /\ added < MaxAdded
    /\ LET sent == Trimmed(Append(messages, NewMessage("user", t)), max_context_tokens)
       IN messages' = SubSeq(sent, 1, Len(sent) - 1)
    /\ added' = added + 1
    /\ conv_op' = "failed"
    /\ conv_before' = messages
    /\ conv_before_total' = total_tokens_used
    /\ UNCHANGED <<max_context_tokens, total_tokens_used>>
    /\ UNCHANGED outsideConv

\* clear_history()
ClearHistory ==
    /\ messages' = <<messages[1]>>
    /\ total_tokens_used' = 0
    /\ conv_op' = "clear"
    /\ conv_before' = messages
    /\ conv_before_total' = total_tokens_used
    /\ UNCHANGED <<max_context_tokens, added>>
    /\ UNCHANGED outsideConv

NextConv ==
    \/ \E role \in {"user", "assistant"}, t \in MessageTokens : AddMessage(role, t)
    \/ TrimHistory
    \/ \E t \in MessageTokens, reply \in MessageTokens, used \in UsageTokens :
          SendMessageReturns(t, reply, used)
    \/ \E t \in MessageTokens : SendMessageRaises(t)
    \/ ClearHistory

SpecConv == InitConv /\ [][NextConv]_vars

----------------------------------------------------------------------------
\* Claims about ConversationManager.

\* C22: after trim_history() returns, the token count of the whole
\* conversation is at most max_context_tokens and the first message is still
\* the system prompt.
C22_TrimmedWithinLimit ==
    conv_op = "trim" =>
        /\ CountTokens(messages) <= max_context_tokens
        /\ messages # <<>>
        /\ messages[1].role = "system"

\* What trim_history does guarantee: within the limit, or nothing but the
\* system prompt and the newest message left.
C22_WithinLimitOrTwoLeft ==
    conv_op = "trim" =>
        /\ CountTokens(messages) <= max_context_tokens \/ Len(messages) <= 2
        /\ messages # <<>>
        /\ messages[1].role = "system"

\* C24: when the API call inside send_message fails, the message list and
\* total_tokens_used are what they were before send_message was called.
C24_FailedSendRestores ==
    conv_op = "failed" =>
        /\ messages = conv_before
        /\ total_tokens_used = conv_before_total

\* What a failed send_message does guarantee: the new user message is gone,
\* the system prompt and a suffix of the earlier history are left.
C24_FailedSendKeepsSuffix ==
    conv_op = "failed" =>
        /\ total_tokens_used = conv_before_total
        /\ \E k \in 0..(Len(conv_before) - 1) :
              messages = <<conv_before[1]>> \o SubSeq(conv_before, k + 2, Len(conv_before))

\* The number of messages trim_history removed.
Removed == Len(conv_before) - Len(messages)

\* C25: trim_history keeps the system prompt, removes the oldest messages
\* after it, an even number of them, and never the most recently added one.
C25_TrimsWholePairs ==
    conv_op = "trim" =>
        /\ messages = <<conv_before[1]>> \o SubSeq(conv_before, Removed + 2, Len(conv_before))
        /\ Removed % 2 = 0
        /\ messages[Len(messages)] = conv_before[Len(conv_before)]

\* The same without the pairs: the oldest messages go, the newest stays.
C25_TrimsOldestFirst ==
    conv_op = "trim" =>
        /\ Removed >= 0
        /\ messages = <<conv_before[1]>> \o SubSeq(conv_before, Removed + 2, Len(conv_before))
        /\ messages[Len(messages)] = conv_before[Len(conv_before)]

\* C26: the message list is never empty and its first element is the system
\* prompt given at construction; clear_history leaves exactly that message
\* and resets total_tokens_used to 0.
C26_SystemPromptFirst ==
    /\ messages # <<>>
    /\ messages[1].role = "system"
    /\ messages[1].id = 0
    /\ messages[1] = conv_before[1]
    /\ \A i \in 2..Len(messages) : messages[i].id # 0
    /\ conv_op = "clear" =>
          /\ messages = <<conv_before[1]>>
          /\ total_tokens_used = 0

\* clear_history after a reply was stored and tokens were counted.
C26_Witness ==
    /\ conv_op = "clear"
    /\ Len(conv_before) >= 3
    /\ conv_before_total > 0
    /\ Len(messages) = 1

----------------------------------------------------------------------------
\* retry_with_backoff and async_retry_with_backoff given the same
\* configuration, the same outcomes of the wrapped operation and the same
\* jitter draws.

Wrappers == {"sync", "async"}

\* time.sleep(secs) raises ValueError for a negative secs.
TimeSleep(d) == IF RLt(d, <<0, 1>>) THEN "ValueError" ELSE "slept"

\* asyncio.sleep(delay) ends at once for a delay <= 0 and raises nothing.
AsyncioSleep(d) == "slept"

\* time.sleep(actual_delay) / await asyncio.sleep(actual_delay)
SleepCall(w, d) == IF w = "sync" THEN TimeSleep(d) ELSE AsyncioSleep(d)

\* One iteration of the loop of wrapper w: the invocation ends with ev ("ok"
\* or the class of the exception it raises), random.random() returns u.
\* st holds rpc, attempt, delay, outcome and log of the wrapper.
Iteration(w, st, cfg, ev, u) ==
    LET k == Len(SelectSeq(st.log, LAMBDA e : e[1] = "invoke")) + 1
        invoked == Append(st.log, <<"invoke", ev>>)
        actual == Capped(IF cfg.jitter THEN Jittered(st.delay, u) ELSE st.delay,
                         cfg.max_delay)
    IN IF ev = "ok"
       THEN [st EXCEPT !.rpc = "done", !.outcome = <<"returned", k>>, !.log = invoked]
       ELSE IF ~Catches(cfg.retryable_exceptions, ev)
                \/ IsLastAttempt(st.attempt, cfg.max_retries)
       THEN [st EXCEPT !.rpc = "done", !.outcome = <<"raised", ev>>, !.log = invoked]
       ELSE IF SleepCall(w, actual) # "slept"
       THEN \* the sleep call raises inside the except block
            [st EXCEPT !.rpc = "done", !.outcome = <<"raised", SleepCall(w, actual)>>,
                       !.log = invoked]
       ELSE [st EXCEPT !.attempt = st.attempt + 1,
                       !.delay = NextDelay(st.delay, cfg.exponential_base),
                       !.log = Append(invoked, <<"sleep", actual>>)]

\* Decorator arguments of the side-by-side runs.
PairConfigs ==
    [max_retries : 0..MaxRetries,
     initial_delay : {<<-1, 1>>, <<0, 1>>, <<1, 1>>},
     max_delay : {<<3, 1>>},
     exponential_base : {<<1, 2>>, <<2, 1>>},
     jitter : BOOLEAN,
     retryable_exceptions : {{"Exception"}, {"APIError"}}]

InitPair ==
    /\ pair_config \in PairConfigs
    /\ pair_rpc = [w \in Wrappers |-> "invoke"]
    /\ pair_attempt = [w \in Wrappers |-> 0]
    /\ pair_delay = [w \in Wrappers |-> pair_config.initial_delay]
    /\ pair_outcome = [w \in Wrappers |-> <<"none">>]
    /\ pair_log = [w \in Wrappers |-> <<>>]
    /\ ConvIdle
    /\ LimiterIdle
    /\ GlobalIdle
    /\ StreamIdle
    /\ RetryIdle
    /\ CostIdle
    /\ TrackerIdle

\* The state of wrapper w, and its state after the iteration (a wrapper that
\* has ended stays as it is).
PairState(w) ==
    [rpc |-> pair_rpc[w], attempt |-> pair_attempt[w], delay |-> pair_delay[w],
     outcome |-> pair_outcome[w], log |-> pair_log[w]]

PairAfter(w, ev, u) ==
    IF pair_rpc[w] = "invoke" THEN Iteration(w, PairState(w), pair_config, ev, u)
    ELSE PairState(w)

\* Both wrappers invoke the operation; it ends with ev for both.
PairInvoke(ev, u) ==
    /\ \E w \in Wrappers : pair_rpc[w] = "invoke"
    /\ pair_rpc' = [w \in Wrappers |-> PairAfter(w, ev, u).rpc]
    /\ pair_attempt' = [w \in Wrappers |-> PairAfter(w, ev, u).attempt]
    /\ pair_delay' = [w \in Wrappers |-> PairAfter(w, ev, u).delay]
    /\ pair_outcome' = [w \in Wrappers |-> PairAfter(w, ev, u).outcome]
    /\ pair_log' = [w \in Wrappers |-> PairAfter(w, ev, u).log]
    /\ UNCHANGED pair_config
    /\ UNCHANGED outsidePair

\* The operation returns.
PairReturns == PairInvoke("ok", <<0, 1>>)

\* The operation raises an exception of class cls.
PairRaises(cls, u) == PairInvoke(cls, u)

NextPair ==
    \/ PairReturns
    \/ \E cls \in Raisable :
          \E u \in (IF pair_config.jitter THEN RandomDraws ELSE {<<0, 1>>}) :
             PairRaises(cls, u)

SpecPair == InitPair /\ [][NextPair]_vars

\* C28: given the same configuration, jitter draws and operation outcomes,
\* both wrappers make the same invocations, sleep the same delays and end
\* with the same returned value or raised exception.
C28_WrappersEquivalent ==
    /\ pair_log["sync"] = pair_log["async"]
    /\ pair_outcome["sync"] = pair_outcome["async"]
    /\ pair_rpc["sync"] = pair_rpc["async"]

\* What the code keeps: the two agree when no delay is negative.
C28_EquivalentWithoutNegativeDelay ==
    RLeq(<<0, 1>>, pair_config.initial_delay) => C28_WrappersEquivalent

----------------------------------------------------------------------------
\* More claims about the limiters.

\* C27: with one caller at a time, the deque holds at most max_requests
\* timestamps after an acquire() has returned, and its timestamps are in
\* non-decreasing order.
C27_DequeBounded ==
    /\ (pc[1] = "idle" /\ result[1] = "ok") => Len(requests) <= max_requests
    /\ \A i \in 1..(Len(requests) - 1) : requests[i] <= requests[i + 1]

\* What the code keeps: the order of the timestamps.
C27_DequeOrdered ==
    \A i \in 1..(Len(requests) - 1) : requests[i] <= requests[i + 1]

----------------------------------------------------------------------------
\* Consumers of a streamed response: _stream_chunks and
\* LiteLLMClient._stream_response (utils/litellm_helpers.py),
\* WritingAssistant.stream_response (ai-writing-assistant/assistant.py).
\* A text is a sequence of characters. A chunk is <<choices, kind, text>>:
\* choices is "one" (a list with one choice), "empty" (an empty list) or
\* "noattr" (the chunk has no attribute choices); kind tells what
\* choices[0].delta.content is: "str" (the text), "None", or "noattr" (the
\* delta has no attribute content).

\* Mutant: `delta.content is not None` instead of the truth test.
HelperYieldsNotNone(chunk) ==
    IF chunk[1] = "one" /\ chunk[2] = "str" THEN <<chunk[3]>> ELSE <<>>

\* if hasattr(chunk, 'choices') and len(chunk.choices) > 0:
\*     delta = chunk.choices[0].delta
\*     if hasattr(delta, 'content') and delta.content: yield delta.content
HelperYields(chunk) ==
    IF chunk[1] = "one"
    THEN IF chunk[2] # "noattr" /\ (chunk[2] = "str" /\ chunk[3] # <<>>)
         THEN <<chunk[3]>> ELSE <<>>
    ELSE <<>>

\* delta = chunk.choices[0].delta.content
\* if delta: full_response += delta; print(delta, ...)
AssistantAdds(chunk) ==
    IF chunk[2] = "str" /\ chunk[3] # <<>> THEN <<chunk[3]>> ELSE <<>>

\* What consuming one chunk yields.
Yields(consumer, chunk) ==
    IF consumer = "stream_response" THEN AssistantAdds(chunk) ELSE HelperYields(chunk)

\* Chunks of the model. Those of the OpenAI client, which the writing
\* assistant reads directly, always carry one choice whose delta has a
\* content that is a string or None.
ClientChunks ==
    {<<"one", "str", <<"H", "i">>>>, <<"one", "str", <<"!">>>>,
     <<"one", "str", <<>>>>, <<"one", "None", <<>>>>}
ChunkKinds ==
    ClientChunks \cup
    {<<"one", "noattr", <<>>>>, <<"empty", "None", <<>>>>, <<"noattr", "None", <<>>>>}

RECURSIVE StreamsUpTo(_, _)
StreamsUpTo(kinds, n) ==
    IF n = 0 THEN {<<>>}
    ELSE LET shorter == StreamsUpTo(kinds, n - 1)
         IN shorter \cup {Append(c, k) : c \in shorter, k \in kinds}

InitStream ==
    /\ stream_consumer \in {"_stream_chunks", "_stream_response", "stream_response"}
    /\ stream_chunks \in
          StreamsUpTo(IF stream_consumer = "stream_response" THEN ClientChunks
                      ELSE ChunkKinds, MaxChunks)
    /\ stream_pos = 0
    /\ stream_out = <<>>
    /\ PairIdle
    /\ ConvIdle
    /\ LimiterIdle
    /\ GlobalIdle
    /\ RetryIdle
    /\ CostIdle
    /\ TrackerIdle

\* One iteration of `for chunk in response` / `for chunk in stream`.
ConsumeChunk ==
    /\ stream_pos < Len(stream_chunks)
    /\ stream_out' = stream_out \o Yields(stream_consumer, stream_chunks[stream_pos + 1])
    /\ stream_pos' = stream_pos + 1
    /\ UNCHANGED <<stream_consumer, stream_chunks>>
    /\ UNCHANGED outsideStream

NextStream == ConsumeChunk

SpecStream == InitStream /\ [][NextStream]_vars

\* The concatenation of a sequence of texts.
RECURSIVE Concatenation(_)
Concatenation(texts) ==
    IF texts = <<>> THEN <<>> ELSE texts[1] \o Concatenation(Tail(texts))

\* The chunk carries a content that is a non-empty string.
HasText(chunk) == chunk[1] = "one" /\ chunk[2] = "str" /\ Len(chunk[3]) > 0

\* The texts of the chunks that carry one, in stream order.
RECURSIVE TextsOf(_)
TextsOf(cs) ==
    IF cs = <<>> THEN <<>>
    ELSE (IF HasText(cs[1]) THEN <<cs[1][3]>> ELSE <<>>) \o TextsOf(Tail(cs))

\* C23: the fragments a consumer has produced are the non-empty contents of
\* the chunks consumed so far, each once and in stream order, so their
\* concatenation is the concatenation of those contents; chunks with empty or
\* missing content contribute nothing.
C23_FragmentsAreContents ==
    /\ stream_out = TextsOf(SubSeq(stream_chunks, 1, stream_pos))
    /\ Concatenation(stream_out)
          = Concatenation(TextsOf(SubSeq(stream_chunks, 1, stream_pos)))
    /\ \A i \in DOMAIN stream_out : stream_out[i] # <<>>

\* "Hi", an empty content and "!" consumed: the text built is "Hi!".
C23_Witness ==
    /\ stream_pos = 3
    /\ stream_chunks = <<<<"one", "str", <<"H", "i">>>>, <<"one", "str", <<>>>>,
                         <<"one", "str", <<"!">>>>>>
    /\ Concatenation(stream_out) = <<"H", "i", "!">>

----------------------------------------------------------------------------
\* utils/cost_tracker.py: the global tracker, the decorator track_cost,
\* print_summary. A response is <<kind, prompt_tokens, completion_tokens,
\* model>>: kind is "usage" (response.usage holds the two counts), "nousage"
\* (the response has no attribute usage) or "usage None" (response.usage is
\* None); model is <<"noattr">> when the response has no attribute model.

\* model_used = model or getattr(response, 'model', 'gpt-3.5-turbo'), the
\* decorator passing no model.
ModelUsed(response) ==
    IF response[4] = <<"noattr">> THEN <<"gpt-3.5", "-turbo">> ELSE response[4]

\* Mutant: the try / except around the tracking is missing.
OnTrackingFailurePropagates(response, cls) == <<"raised", cls>>

\* except Exception as e: print(...); then `return response`
OnTrackingFailure(response, cls) == <<"returned", response>>

\* The responses and exceptions of the decorated functions of the model.
Responses ==
    {<<"usage", t[1], t[2], m>> :
        t \in {<<100, 200>>, <<50, 100>>}, m \in {<<"gpt-4">>, <<"claude">>, <<"noattr">>}}
    \cup {<<"nousage", 0, 0, <<"noattr">>>>, <<"usage None", 0, 0, <<"gpt-4">>>>}
Behaviours ==
    {<<"returns", r>> : r \in Responses} \cup {<<"raises", "RateLimitError">>}

\* A process that has not used the global tracker yet.
InitGlobal ==
    /\ global_tracker = "None"
    /\ deco_func = <<"none">>
    /\ deco_result = <<"none">>
    /\ summary_result = "none"
    /\ tracker = "utils"
    /\ tracker_calls = <<>>
    /\ total_cost = <<0, 1>>
    /\ \E t \in ThresholdSettings : warning_threshold = t[1] /\ max_threshold = t[2]
    /\ track_args = <<>>
    /\ track_result = <<"none">>
    /\ warned = FALSE
    /\ tracked = <<>>
    /\ report = [kind |-> "none"]
    /\ StreamIdle
    /\ PairIdle
    /\ ConvIdle
    /\ LimiterIdle
    /\ RetryIdle
    /\ CostIdle

\* A call of a function decorated with track_cost; f is what the function does.
DecoratedCall(f) ==
    /\ Len(tracker_calls) < MaxTracked
    /\ global_tracker' = "set"
    /\ deco_func' = f
    /\ IF f[1] = "raises"
       THEN \* response = func(*args, **kwargs) raises: the wrapper is left
            /\ deco_result' = <<"raised", f[2]>>
            /\ UNCHANGED trackerVars
       ELSE IF f[2][1] = "nousage"
       THEN \* hasattr(response, 'usage') is false
            /\ deco_result' = <<"returned", f[2]>>
            /\ UNCHANGED trackerVars
       ELSE IF f[2][1] = "usage None"
       THEN \* usage.prompt_tokens raises AttributeError in track_from_response
            /\ deco_result' = OnTrackingFailure(f[2], "AttributeError")
            /\ UNCHANGED trackerVars
       ELSE /\ TrackTokensBody(f[2][2], f[2][3], ModelUsed(f[2]))
            /\ deco_result' = IF track_result'[1] = "returned"
                              THEN <<"returned", f[2]>>
                              ELSE OnTrackingFailure(f[2], track_result'[1])
    /\ UNCHANGED summary_result
    /\ UNCHANGED outsideGlobal

\* print_global_summary(): get_global_tracker().print_summary(), which reads
\* report['by_model'] of get_session_report().
PrintSummary ==
    /\ global_tracker' = "set"
    /\ GetSessionReportBody
    /\ summary_result' = IF report'.kind = "full" THEN "printed" ELSE "KeyError"
    /\ UNCHANGED <<deco_func, deco_result>>
    /\ UNCHANGED outsideGlobal

\* reset_global_tracker(): the next get_global_tracker() makes a new tracker.
ResetGlobalTracker ==
    /\ global_tracker' = "None"
    /\ tracker_calls' = <<>>
    /\ tracked' = <<>>
    /\ track_args' = <<>>
    /\ track_result' = <<"none">>
    /\ warned' = FALSE
    /\ report' = [kind |-> "none"]
    /\ UNCHANGED <<tracker, total_cost, warning_threshold, max_threshold>>
    /\ UNCHANGED <<deco_func, deco_result, summary_result>>
    /\ UNCHANGED outsideGlobal

NextGlobal ==
    \/ \E f \in Behaviours : DecoratedCall(f)
    \/ PrintSummary
    \/ ResetGlobalTracker

SpecGlobal == InitGlobal /\ [][NextGlobal]_vars

\* C29: a function decorated with track_cost returns the response of the
\* wrapped function unchanged whatever the tracking does (unknown model,
\* CostLimitExceeded, a response without usable usage); an exception of the
\* wrapped function propagates, and nothing is tracked for that call.
C29_DecoratorTransparent ==
    /\ [](/\ deco_func[1] = "returns" => deco_result = <<"returned", deco_func[2]>>
          /\ deco_func[1] = "raises" => deco_result = <<"raised", deco_func[2]>>)
    /\ [][(deco_func'[1] = "raises" /\ global_tracker' = "set")
            => tracker_calls' = tracker_calls /\ tracked' = tracked]_vars

\* The tracking raised CostLimitExceeded and the caller still got the response.
C29_Witness ==
    /\ deco_func[1] = "returns"
    /\ deco_result = <<"returned", deco_func[2]>>
    /\ track_result = <<"CostLimitExceeded">>
    /\ track_args = <<deco_func[2][2], deco_func[2][3], ModelUsed(deco_func[2])>>

\* C30: print_summary / print_global_summary never raises, the report it
\* reads always has the by_model field, a tracker without calls included.
C30_SummaryNeverRaises ==
    /\ summary_result # "KeyError"
    /\ report.kind # "none" => report.kind = "full"

\* What the code keeps: with at least one recorded call the summary prints.
C30_SummaryPrintsWithCalls ==
    (summary_result = "KeyError") => (report.kind = "empty" /\ tracker_calls = <<>>)
        \/ report.kind = "none"

=============================================================================
